---- MODULE Spec2Model ----
(***************************************************************************)
(* explaindiffs: retrieval of identification histories from the            *)
(* iNaturalist API.                                                        *)
(*                                                                         *)
(* Modelled code:                                                          *)
(*   src/common_scripts/inat_api.py  get_taxon_id, get_taxon_ids,          *)
(*                                   get_taxon_name, get_taxon_names,      *)
(*                                   get_obs_n, get_id_histories           *)
(*   src/confmat_inat.py             get_id_histories (one-off script)     *)
(*                                                                         *)
(* One behaviour is one call of one of these functions by a caller.  The   *)
(* call is split at its blocking points: every rq.get is a request step    *)
(* followed by a reply step, and time.sleep is a step of its own.  The     *)
(* remote service is the environment: it answers each request with a       *)
(* transport failure or with an HTTP response (status code and body).      *)
(***************************************************************************)
EXTENDS Integers, Sequences, FiniteSets, TLC

VARIABLES
    op,            \* the function the caller invoked
    taxon_id,      \* argument taxon_id (library functions taking an ID)
    taxon,         \* argument taxon (name) of get_taxon_id / the script
    taxa,          \* argument list of get_taxon_ids / get_taxon_names
    n_obs_arg,     \* argument n_obs as passed: <<>> is None, <<n>> is n
    n_obs,         \* local n_obs once known
    obs_per_page,  \* argument obs_per_page
    delay,         \* argument delay
    pc,            \* position of the call
    page_id,       \* loop variable of get_id_histories
    id_histories,  \* accumulator of get_id_histories
    batch,         \* partial list built by the comprehension of get_taxon_ids
    requests,      \* every request issued so far, in order, with its issue time
    responses,     \* every reply received so far, in order
    inflight,      \* number of requests issued and not yet answered
    sleeps,        \* number of completed time.sleep calls
    now,           \* clock (seconds)
    result,        \* the value the call returned, NoResult before
    error,         \* the exception that left the call, NoError if none
    remote_n,      \* number of matching observations the remote service holds
    observation,   \* obs_one: the record whose history is extracted
    histories,     \* the collection of histories given to the aggregation
    counts,        \* the running per-name counter of the aggregation
    agg_pos,       \* number of histories the aggregation has counted
    first_run      \* what an earlier call in the same comparison did, <<>> if none

vars == <<op, taxon_id, taxon, taxa, n_obs_arg, n_obs, obs_per_page, delay, pc,
          page_id, id_histories, batch, requests, responses, inflight, sleeps,
          now, result, error, remote_n, observation, histories, counts,
          agg_pos, first_run>>

(* The variables only the extraction, the aggregation and the comparison   *)
(* of the two fetches use.                                                 *)
aux == <<observation, histories, counts, agg_pos, first_run>>

----------------------------------------------------------------------------
(* Bounds of the model                                                     *)

MaxN == 4          \* small totals 0..MaxN
MaxP == 3          \* small page sizes 1..MaxP
MaxDelay == 2      \* delays -1..MaxDelay
MaxRemote == 3     \* the remote service holds 0..MaxRemote matching observations
MaxBatch == 2      \* batch resolver inputs of length 0..MaxBatch
MaxIdents == 4     \* an extracted observation has 0..MaxIdents identifications
MaxOccurrences == 5 \* the aggregated histories hold 0..MaxOccurrences names in all

(* Program constants                                                       *)

INAT_DELAY == 1            \* inat_api.py:15
DefaultObsPerPage == 200   \* inat_api.py:104, confmat_inat.py:6
ScriptSleep == 1           \* confmat_inat.py:44

(* The page-size ceiling of the remote service (spec section 4.2).         *)
RemoteMaxPerPage == 200

None == <<>>
Some(v) == <<v>>

Min(a, b) == IF a <= b THEN a ELSE b

----------------------------------------------------------------------------
(* The remote service (environment).                                       *)

(* Taxon records held by the remote service.  The free-text search for "A" *)
(* also matches the subspecies "A b"; no taxon matches "Z"; ID 9 is not    *)
(* assigned.                                                               *)
TaxaDB ==
    << [id |-> 1, name |-> "A",   observations_count |-> 3],
       [id |-> 2, name |-> "B",   observations_count |-> 4],
       [id |-> 3, name |-> "A b", observations_count |-> 0] >>

TaxonNames == {"A", "B", "Z"}
TaxonIds == {1, 2, 9}

TaxonMatches(q, t) == t.name = q \/ (q = "A" /\ t.name = "A b")

SearchTaxa(q) == SelectSeq(TaxaDB, LAMBDA t : TaxonMatches(q, t))
LookupTaxon(id) == SelectSeq(TaxaDB, LAMBDA t : t.id = id)

(* The k-th matching observation of the remote data set: its               *)
(* identification events in submission order.  Histories of different      *)
(* observations differ, and some repeat a name consecutively.              *)
RemoteHistoryLen(k) == 1 + (k % 3)
RemoteIdent(k, j) ==
    LET t == TaxaDB[((k * j) % 2) + 1]
    IN  [id |-> 1000 * k + j, current |-> j = RemoteHistoryLen(k),
         taxon |-> [id |-> t.id, name |-> t.name]]
RemoteObs(k) ==
    [id |-> 100 + k, quality_grade |-> "research",
     identifications |-> [j \in 1..RemoteHistoryLen(k) |-> RemoteIdent(k, j)]]

(* Page `page` of the listing, `per_page` records to a page.               *)
ListObservations(per_page, page) ==
    LET first == (page - 1) * per_page + 1
        last  == Min(page * per_page, remote_n)
    IN  IF per_page <= 0 \/ last < first THEN <<>>
        ELSE [j \in 1..(last - first + 1) |-> RemoteObs(first + j - 1)]

(* The taxa attached to observations of taxon `id`, with frequencies, as   *)
(* the remote service lists them: taxon 2 is listed twice and one entry    *)
(* has the count 0; the list is not sorted by count.                       *)
SimilarSpecies(id) ==
    IF id = 1
    THEN << [taxon |-> [id |-> 2, name |-> "B"],   count |-> 1],
            [taxon |-> [id |-> 3, name |-> "A b"], count |-> 0],
            [taxon |-> [id |-> 2, name |-> "B"],   count |-> 5] >>
    ELSE IF id = 2
    THEN << [taxon |-> [id |-> 1, name |-> "A"], count |-> 2] >>
    ELSE <<>>

SimilarUrl == <<"v1", "identifications", "similar_species">>

(* The records a well-formed answer to request r carries.                  *)
RemoteResults(r) ==
    IF r.url = <<"v1", "observations">>
    THEN ListObservations(r.params.per_page, r.params.page)
    ELSE IF r.url = <<"v1", "taxa">> THEN SearchTaxa(r.params.q)
    ELSE IF r.url = SimilarUrl THEN SimilarSpecies(r.params.taxon_id)
    ELSE LookupTaxon(r.url[3])

(* The same records with the fields the client reads left out.             *)
Malformed(recs) == [j \in 1..Len(recs) |-> [id |-> recs[j].id]]
MalformedTaxa(recs) == [j \in 1..Len(recs) |-> [rank |-> "species"]]
MalformedSimilar(recs) == [j \in 1..Len(recs) |-> [taxon |-> recs[j].taxon]]

StatusCodes == {200, 500}

(* Every answer the remote service and the network may give to request r:  *)
(* no answer at all, a body that is not JSON, a JSON error object, a JSON  *)
(* listing whose records lack fields, or a well-formed listing.  The       *)
(* status code of a response does not determine its body.                  *)
Replies(r) ==
    LET recs == RemoteResults(r)
        bad  == IF r.url = <<"v1", "observations">> THEN Malformed(recs)
                ELSE IF r.url = SimilarUrl THEN MalformedSimilar(recs)
                ELSE MalformedTaxa(recs)
    IN  { [connected |-> FALSE, status_code |-> 0, is_json |-> FALSE,
           body |-> [text |-> ""]],
          [connected |-> TRUE, status_code |-> 502, is_json |-> FALSE,
           body |-> [text |-> "Bad Gateway"]],
          [connected |-> TRUE, status_code |-> 422, is_json |-> TRUE,
           body |-> [error |-> "Unprocessable Entity", status |-> 422]],
          [connected |-> TRUE, status_code |-> 200, is_json |-> TRUE,
           body |-> [total_results |-> Len(recs), results |-> bad]] }
        \cup
        { [connected |-> TRUE, status_code |-> s, is_json |-> TRUE,
           body |-> [total_results |-> Len(recs), results |-> recs]]
          : s \in StatusCodes }

----------------------------------------------------------------------------
(* Expressions of the code.  An exception is its class and its args; an    *)
(* expression evaluates to a value or raises:                              *)
(* [error |-> NoError, value |-> v] or [error |-> <exception>, value |-> <<>>]. *)

NoError == [type |-> "", args |-> <<>>]
Exception(t, a) == [type |-> t, args |-> a]
Ok(v) == [error |-> NoError, value |-> v]
Raise(t, a) == [error |-> Exception(t, a), value |-> <<>>]
Raised(out) == out.error.type # ""

(* A returned Python value with its type. *)
NoResult == [type |-> "", value |-> <<>>]
Returned(t, v) == [type |-> t, value |-> v]

(* rq.get(...).json()['results'] : requests raises on a transport failure, *)
(* .json() on a body that is not JSON, the subscript on a missing key.     *)
(* The status code is not looked at.                                       *)
JsonResults(resp) ==
    IF ~resp.connected THEN Raise("ConnectionError", <<>>)
    ELSE IF ~resp.is_json THEN Raise("JSONDecodeError", <<"Expecting value">>)
    ELSE IF "results" \notin DOMAIN resp.body THEN Raise("KeyError", <<"results">>)
    ELSE Ok(resp.body.results)

(* FirstField without the failure on the empty list: a default instead. *)
FirstField_NoCheck(obs, field) ==
    IF Len(obs) = 0 THEN Ok(0)
    ELSE IF field \notin DOMAIN obs[1] THEN Raise("KeyError", <<field>>)
    ELSE Ok(obs[1][field])

(* obs[0][field] *)
FirstField(obs, field) ==
    IF Len(obs) = 0 THEN Raise("IndexError", <<"list index out of range">>)
    ELSE IF field \notin DOMAIN obs[1] THEN Raise("KeyError", <<field>>)
    ELSE Ok(obs[1][field])

----------------------------------------------------------------------------
(* get_id_histories: inat_api.py 104-156 and confmat_inat.py 6-46.         *)

LIB == "inat_api.get_id_histories"
SCRIPT == "confmat_inat.get_id_histories"
IsFetch == op \in {LIB, SCRIPT}

(* PageCount without the last, partial page. *)
PageCount_Floor(n, p) == n \div p

(* range(0, n_obs // obs_per_page + 1) *)
PageCount(n, p) == (n \div p) + 1

(* PerPage without the cap by what is left: always the full page size. *)
PerPage_Full(p, n, i) == p

(* 'per_page': min(obs_per_page, n_obs - page_id * obs_per_page) *)
PerPage(p, n, i) == Min(p, n - i * p)

(* PageNumber counted from 0. *)
PageNumber_ZeroBased(i) == i

(* 'page': page_id + 1 *)
PageNumber(i) == i + 1

(* The params of the observation request of loop index i. *)
PageParams(i) ==
    IF op = LIB
    THEN [taxon_id |-> taxon_id,
          per_page |-> PerPage(obs_per_page, n_obs[1], i),
          page |-> PageNumber(i),
          identified |-> "true", quality_grade |-> "research"]
    ELSE [taxon_name |-> taxon,
          per_page |-> PerPage(obs_per_page, n_obs[1], i),
          page |-> PageNumber(i),
          identified |-> "true", quality_grade |-> "research"]

PageRequest(i) ==
    [url |-> <<"v1", "observations">>, params |-> PageParams(i), time |-> now]

(* rq.get('https://api.inaturalist.org/v1/taxa/{}'.format(taxon_id)) *)
TaxonRequest(id) ==
    [url |-> <<"v1", "taxa", id>>, params |-> <<>>, time |-> now]

(* History with consecutive repeats of a name dropped. *)
History_Dedup(obs_one) ==
    LET ids  == obs_one.identifications
        idx  == [i \in 1..Len(ids) |-> i]
        kept == SelectSeq(idx, LAMBDA i :
                    i = 1 \/ ids[i].taxon.name # ids[i - 1].taxon.name)
    IN  [k \in 1..Len(kept) |-> ids[kept[k]].taxon.name]

(* [ident['taxon']['name'] for ident in obs_one['identifications']] *)
History(obs_one) ==
    [i \in 1..Len(obs_one.identifications) |->
        obs_one.identifications[i].taxon.name]

(* Whether the comprehension finds every key it subscripts. *)
WellFormedObs(obs_one) ==
    /\ "identifications" \in DOMAIN obs_one
    /\ \A i \in 1..Len(obs_one.identifications) :
          /\ "taxon" \in DOMAIN obs_one.identifications[i]
          /\ "name" \in DOMAIN obs_one.identifications[i].taxon

(* HistoryEntry with the script dropping consecutive repeats of a name. *)
HistoryEntry_ScriptDedup(obs_one) ==
    IF op = LIB THEN [history |-> History(obs_one)] ELSE History_Dedup(obs_one)

(* One entry of id_histories_part: the library wraps the history in a      *)
(* record, the script keeps the bare list.                                 *)
HistoryEntry(obs_one) ==
    IF op = LIB THEN [history |-> History(obs_one)] ELSE History(obs_one)

(* id_histories_part *)
HistoriesPart(obs) ==
    IF \E j \in 1..Len(obs) : ~WellFormedObs(obs[j])
    THEN Raise("KeyError", <<"identifications">>)
    ELSE Ok([j \in 1..Len(obs) |-> HistoryEntry(obs[j])])

(* Extend putting the new page in front. *)
Extend_Front(list, part) == part \o list

(* id_histories.extend(id_histories_part) *)
Extend(list, part) == list \o part

(* The whole loop body up to the extend, on the reply resp. *)
PageOutcome(resp) ==
    LET obs == JsonResults(resp)
    IN  IF Raised(obs) THEN obs ELSE HistoriesPart(obs.value)

(* SleepLength with the argument ignored: always the default delay. *)
SleepLength_IgnoresDelay == INAT_DELAY

(* time.sleep(delay) in the library, time.sleep(1) in the script. *)
SleepLength == IF op = LIB THEN delay ELSE ScriptSleep

(* HintAbsent testing truthiness: a total of 0 counts as absent too. *)
HintAbsent_Falsy(n) == n = None \/ n = Some(0)

(* n_obs == None *)
HintAbsent(n) == n = None

(* if n_obs == None: n_obs = get_obs_n(taxon_id)  -- the request *)
GetIdHistories_CountRequest ==
    /\ pc = "call" /\ op = LIB /\ HintAbsent(n_obs)
    /\ requests' = Append(requests, TaxonRequest(taxon_id))
    /\ inflight' = inflight + 1
    /\ pc' = "get_obs_n"
    /\ UNCHANGED <<op, taxon_id, taxon, taxa, n_obs_arg, n_obs, obs_per_page,
                   delay, page_id, id_histories, batch, responses, sleeps, now,
                   result, error, remote_n, aux>>

(* get_obs_n answers: n_obs = taxa[0]['observations_count'], id_histories = [] *)
GetIdHistories_CountReply ==
    /\ pc = "get_obs_n" /\ IsFetch
    /\ \E resp \in Replies(requests[Len(requests)]) :
         LET taxa_ == JsonResults(resp)
             n == IF Raised(taxa_) THEN taxa_
                  ELSE FirstField(taxa_.value, "observations_count")
         IN  /\ responses' = Append(responses, resp)
             /\ inflight' = inflight - 1
             /\ IF Raised(n)
                THEN /\ error' = n.error /\ pc' = "raised"
                     /\ UNCHANGED <<n_obs, id_histories, page_id>>
                ELSE /\ n_obs' = Some(n.value) /\ id_histories' = <<>>
                     /\ page_id' = 0 /\ pc' = "loop"
                     /\ UNCHANGED error
    /\ UNCHANGED <<op, taxon_id, taxon, taxa, n_obs_arg, obs_per_page, delay,
                   batch, requests, sleeps, now, result, remote_n, aux>>

(* n_obs was passed: id_histories = [] and the loop starts. *)
GetIdHistories_HintGiven ==
    /\ pc = "call" /\ IsFetch /\ ~(op = LIB /\ HintAbsent(n_obs))
    /\ id_histories' = <<>> /\ page_id' = 0 /\ pc' = "loop"
    /\ UNCHANGED <<op, taxon_id, taxon, taxa, n_obs_arg, n_obs, obs_per_page,
                   delay, batch, requests, responses, inflight, sleeps, now,
                   result, error, remote_n, aux>>

(* for page_id in range(...): obs = rq.get(...)  -- the request *)
GetIdHistories_PageRequest ==
    /\ pc = "loop" /\ IsFetch
    /\ page_id < PageCount(n_obs[1], obs_per_page)
    /\ requests' = Append(requests, PageRequest(page_id))
    /\ inflight' = inflight + 1
    /\ pc' = "page"
    /\ UNCHANGED <<op, taxon_id, taxon, taxa, n_obs_arg, n_obs, obs_per_page,
                   delay, page_id, id_histories, batch, responses, sleeps, now,
                   result, error, remote_n, aux>>

(* The answers request r may get.  When the fetch is the second of two     *)
(* that are compared against the same remote responses, it is the answer   *)
(* the first fetch got at the same position, as long as there is one.      *)
Answers(r) ==
    IF first_run # None /\ Len(responses) < Len(first_run[1].responses)
    THEN {first_run[1].responses[Len(responses) + 1]}
    ELSE Replies(r)

(* The reply: .json()['results'], the comprehension, extend. *)
GetIdHistories_PageReply ==
    /\ pc = "page" /\ IsFetch
    /\ \E resp \in Answers(requests[Len(requests)]) :
         LET part == PageOutcome(resp)
         IN  /\ responses' = Append(responses, resp)
             /\ inflight' = inflight - 1
             /\ IF Raised(part)
                THEN /\ error' = part.error /\ pc' = "raised"
                     /\ UNCHANGED id_histories
                ELSE /\ id_histories' = Extend(id_histories, part.value)
                     /\ pc' = "sleep"
                     /\ UNCHANGED error
    /\ UNCHANGED <<op, taxon_id, taxon, taxa, n_obs_arg, n_obs, obs_per_page,
                   delay, page_id, batch, requests, sleeps, now, result,
                   remote_n, aux>>

(* time.sleep(...): raises ValueError on a negative length; then the loop  *)
(* variable advances.                                                      *)
GetIdHistories_Sleep ==
    /\ pc = "sleep" /\ IsFetch
    /\ IF SleepLength < 0
       THEN /\ error' = Exception("ValueError", <<"sleep length must be non-negative">>)
            /\ pc' = "raised"
            /\ UNCHANGED <<now, sleeps, page_id>>
       ELSE /\ now' = now + SleepLength
            /\ sleeps' = sleeps + 1
            /\ page_id' = page_id + 1
            /\ pc' = "loop"
            /\ UNCHANGED error
    /\ UNCHANGED <<op, taxon_id, taxon, taxa, n_obs_arg, n_obs, obs_per_page,
                   delay, id_histories, batch, requests, responses, inflight,
                   result, remote_n, aux>>

(* return id_histories *)
GetIdHistories_Return ==
    /\ pc = "loop" /\ IsFetch
    /\ page_id >= PageCount(n_obs[1], obs_per_page)
    /\ result' = Returned("list", id_histories)
    /\ pc' = "returned"
    /\ UNCHANGED <<op, taxon_id, taxon, taxa, n_obs_arg, n_obs, obs_per_page,
                   delay, page_id, id_histories, batch, requests, responses,
                   inflight, sleeps, now, error, remote_n, aux>>

----------------------------------------------------------------------------
(* The resolver: inat_api.py 21-101.                                       *)

(* rq.get('https://api.inaturalist.org/v1/taxa', params = {'q': taxon}) *)
SearchRequest(name) ==
    [url |-> <<"v1", "taxa">>, params |-> [q |-> name], time |-> now]

(* The request of a single-item resolver call. *)
ResolverRequest ==
    IF op = "get_taxon_id" THEN SearchRequest(taxon) ELSE TaxonRequest(taxon_id)

(* The field of the first result a single-item resolver returns. *)
ResolverField ==
    CASE op = "get_taxon_id"   -> "id"
      [] op = "get_taxon_name" -> "name"
      [] op = "get_obs_n"      -> "observations_count"

(* The annotated type of what a single-item resolver returns. *)
ResolverType == IF op = "get_taxon_name" THEN "str" ELSE "int"

(* obs = rq.get(...).json()['results'];  return obs[0][field] *)
ResolverOutcome(resp, field) ==
    LET obs == JsonResults(resp)
    IN  IF Raised(obs) THEN obs ELSE FirstField(obs.value, field)

IsSingle == op \in {"get_taxon_id", "get_taxon_name", "get_obs_n"}

(* get_taxon_id, get_taxon_name, get_obs_n: the request *)
Resolver_Request ==
    /\ pc = "call" /\ IsSingle
    /\ requests' = Append(requests, ResolverRequest)
    /\ inflight' = inflight + 1
    /\ pc' = "lookup"
    /\ UNCHANGED <<op, taxon_id, taxon, taxa, n_obs_arg, n_obs, obs_per_page,
                   delay, page_id, id_histories, batch, responses, sleeps, now,
                   result, error, remote_n, aux>>

(* get_taxon_id, get_taxon_name, get_obs_n: the reply and the return *)
Resolver_Reply ==
    /\ pc = "lookup" /\ IsSingle
    /\ \E resp \in Replies(requests[Len(requests)]) :
         LET out == ResolverOutcome(resp, ResolverField)
         IN  /\ responses' = Append(responses, resp)
             /\ inflight' = inflight - 1
             /\ IF Raised(out)
                THEN /\ error' = out.error /\ pc' = "raised"
                     /\ UNCHANGED result
                ELSE /\ result' = Returned(ResolverType, out.value) /\ pc' = "returned"
                     /\ UNCHANGED error
    /\ UNCHANGED <<op, taxon_id, taxon, taxa, n_obs_arg, n_obs, obs_per_page,
                   delay, page_id, id_histories, batch, requests, sleeps, now,
                   remote_n, aux>>

(* get_sim_spp: inat_api.py 158-181. *)

SimSppRequest(id) ==
    [url |-> SimilarUrl, params |-> [taxon_id |-> id], time |-> now]

WellFormedSimSp(sp) ==
    /\ "taxon" \in DOMAIN sp /\ "id" \in DOMAIN sp.taxon
    /\ "count" \in DOMAIN sp

(* The key whose lookup fails on the record sp. *)
MissingSimSpKey(sp) ==
    IF "taxon" \notin DOMAIN sp THEN "taxon"
    ELSE IF "id" \notin DOMAIN sp.taxon THEN "id" ELSE "count"

(* SimSpp leaving out the entries whose count is 0. *)
SimSpp_NonZero(sim_spp_json) ==
    IF \E j \in 1..Len(sim_spp_json) : ~WellFormedSimSp(sim_spp_json[j])
    THEN Raise("KeyError", <<"count">>)
    ELSE LET kept == SelectSeq(sim_spp_json, LAMBDA sp : sp.count # 0)
         IN  Ok([j \in 1..Len(kept) |-> <<kept[j].taxon.id, kept[j].count>>])

(* [(sp['taxon']['id'], sp['count']) for sp in sim_spp_json] *)
SimSpp(sim_spp_json) ==
    IF \E j \in 1..Len(sim_spp_json) : ~WellFormedSimSp(sim_spp_json[j])
    THEN LET j == CHOOSE k \in 1..Len(sim_spp_json) :
                     /\ ~WellFormedSimSp(sim_spp_json[k])
                     /\ \A l \in 1..(k - 1) : WellFormedSimSp(sim_spp_json[l])
         IN  Raise("KeyError", <<MissingSimSpKey(sim_spp_json[j])>>)
    ELSE Ok([j \in 1..Len(sim_spp_json) |->
                <<sim_spp_json[j].taxon.id, sim_spp_json[j].count>>])

(* sim_spp_json = rq.get(...).json()['results'];  sim_spp = [...] *)
SimSppOutcome(resp) ==
    LET sim_spp_json == JsonResults(resp)
    IN  IF Raised(sim_spp_json) THEN sim_spp_json
        ELSE SimSpp(sim_spp_json.value)

(* get_sim_spp: the request *)
GetSimSpp_Request ==
    /\ pc = "call" /\ op = "get_sim_spp"
    /\ requests' = Append(requests, SimSppRequest(taxon_id))
    /\ inflight' = inflight + 1
    /\ pc' = "lookup"
    /\ UNCHANGED <<op, taxon_id, taxon, taxa, n_obs_arg, n_obs, obs_per_page,
                   delay, page_id, id_histories, batch, responses, sleeps, now,
                   result, error, remote_n, aux>>

(* get_sim_spp: the reply, the conversion and the return *)
GetSimSpp_Reply ==
    /\ pc = "lookup" /\ op = "get_sim_spp"
    /\ \E resp \in Replies(requests[Len(requests)]) :
         LET out == SimSppOutcome(resp)
         IN  /\ responses' = Append(responses, resp)
             /\ inflight' = inflight - 1
             /\ IF Raised(out)
                THEN /\ error' = out.error /\ pc' = "raised"
                     /\ UNCHANGED result
                ELSE /\ result' = Returned("list", out.value) /\ pc' = "returned"
                     /\ UNCHANGED error
    /\ UNCHANGED <<op, taxon_id, taxon, taxa, n_obs_arg, n_obs, obs_per_page,
                   delay, page_id, id_histories, batch, requests, sleeps, now,
                   remote_n, aux>>

(* get_taxon_ids: [get_taxon_id(taxon) for taxon in taxa] -- the request   *)
(* of the next element.                                                    *)
GetTaxonIds_Request ==
    /\ pc = "call" /\ op = "get_taxon_ids"
    /\ Len(batch) < Len(taxa)
    /\ requests' = Append(requests, SearchRequest(taxa[Len(batch) + 1]))
    /\ inflight' = inflight + 1
    /\ pc' = "lookup"
    /\ UNCHANGED <<op, taxon_id, taxon, taxa, n_obs_arg, n_obs, obs_per_page,
                   delay, page_id, id_histories, batch, responses, sleeps, now,
                   result, error, remote_n, aux>>

(* get_taxon_ids: get_taxon_id returns or raises for the current element. *)
GetTaxonIds_Reply ==
    /\ pc = "lookup" /\ op = "get_taxon_ids"
    /\ \E resp \in Replies(requests[Len(requests)]) :
         LET out == ResolverOutcome(resp, "id")
         IN  /\ responses' = Append(responses, resp)
             /\ inflight' = inflight - 1
             /\ IF Raised(out)
                THEN /\ error' = out.error /\ pc' = "raised"
                     /\ UNCHANGED batch
                ELSE /\ batch' = Append(batch, out.value) /\ pc' = "call"
                     /\ UNCHANGED error
    /\ UNCHANGED <<op, taxon_id, taxon, taxa, n_obs_arg, n_obs, obs_per_page,
                   delay, page_id, id_histories, requests, sleeps, now, result,
                   remote_n, aux>>

(* get_taxon_ids: the comprehension is exhausted, the list is returned. *)
GetTaxonIds_Return ==
    /\ pc = "call" /\ op = "get_taxon_ids"
    /\ Len(batch) = Len(taxa)
    /\ result' = Returned("list", batch)
    /\ pc' = "returned"
    /\ UNCHANGED <<op, taxon_id, taxon, taxa, n_obs_arg, n_obs, obs_per_page,
                   delay, page_id, id_histories, batch, requests, responses,
                   inflight, sleeps, now, error, remote_n, aux>>

(* get_taxon_names: the body is the docstring alone; the call returns None *)
(* without a request.                                                      *)
GetTaxonNames ==
    /\ pc = "call" /\ op = "get_taxon_names"
    /\ result' = Returned("NoneType", <<>>)
    /\ pc' = "returned"
    /\ UNCHANGED <<op, taxon_id, taxon, taxa, n_obs_arg, n_obs, obs_per_page,
                   delay, page_id, id_histories, batch, requests, responses,
                   inflight, sleeps, now, error, remote_n, aux>>

----------------------------------------------------------------------------
(* The calls a caller may make.                                            *)

SmallTotals == 0..MaxN
SmallPageSizes == 1..MaxP
LargePageSizes == {DefaultObsPerPage, DefaultObsPerPage + 1}
LargeTotals == {DefaultObsPerPage, DefaultObsPerPage + 1,
                2 * DefaultObsPerPage, 450}
Delays == -1..MaxDelay

(* (n_obs, obs_per_page) pairs: the small ones, and the large ones that    *)
(* need few pages.                                                         *)
FetchInputs ==
    (SmallTotals \X (SmallPageSizes \cup LargePageSizes))
    \cup (LargeTotals \X LargePageSizes)

RECURSIVE SeqsUpTo(_, _)
SeqsUpTo(S, n) ==
    IF n = 0 THEN {<<>>}
    ELSE LET shorter == SeqsUpTo(S, n - 1)
         IN  shorter \cup {Append(q, x) : q \in {r \in shorter : Len(r) = n - 1}, x \in S}

Quiet ==
    /\ pc = "call" /\ page_id = 0 /\ id_histories = <<>> /\ batch = <<>>
    /\ requests = <<>> /\ responses = <<>> /\ inflight = 0 /\ sleeps = 0
    /\ now = 0 /\ result = NoResult /\ error = NoError

(* No extraction, aggregation or comparison is under way. *)
NoObservation == [id |-> 0, quality_grade |-> "", identifications |-> <<>>]
AuxIdle ==
    /\ observation = NoObservation /\ histories = <<>> /\ counts = <<>>
    /\ agg_pos = 0 /\ first_run = None

InitLib ==
    /\ op = LIB /\ taxon = "" /\ taxa = <<>>
    /\ taxon_id \in TaxonIds
    /\ \/ \E io \in FetchInputs : n_obs_arg = Some(io[1]) /\ obs_per_page = io[2]
       \/ n_obs_arg = None /\ obs_per_page \in SmallPageSizes \cup LargePageSizes
    /\ n_obs = n_obs_arg
    /\ delay \in Delays
    /\ remote_n \in 0..MaxRemote

InitScript ==
    /\ op = SCRIPT /\ taxon_id = 0 /\ taxa = <<>>
    /\ taxon \in TaxonNames
    /\ \E io \in FetchInputs : n_obs_arg = Some(io[1]) /\ obs_per_page = io[2]
    /\ n_obs = n_obs_arg
    /\ delay = INAT_DELAY
    /\ remote_n \in 0..MaxRemote

InitResolver ==
    /\ \/ op = "get_taxon_id" /\ taxon \in TaxonNames /\ taxon_id = 0 /\ taxa = <<>>
       \/ op \in {"get_taxon_name", "get_obs_n", "get_sim_spp"}
          /\ taxon_id \in TaxonIds
          /\ taxon = "" /\ taxa = <<>>
       \/ op = "get_taxon_ids" /\ taxa \in SeqsUpTo(TaxonNames, MaxBatch)
          /\ taxon = "" /\ taxon_id = 0
       \/ op = "get_taxon_names" /\ taxa \in SeqsUpTo(TaxonIds, MaxBatch)
          /\ taxon = "" /\ taxon_id = 0
    /\ n_obs_arg = None /\ n_obs = None
    /\ obs_per_page = DefaultObsPerPage /\ delay = INAT_DELAY
    /\ remote_n = 0

Init == Quiet /\ AuxIdle /\ (InitLib \/ InitScript \/ InitResolver)

Next ==
    \/ GetIdHistories_CountRequest
    \/ GetIdHistories_CountReply
    \/ GetIdHistories_HintGiven
    \/ GetIdHistories_PageRequest
    \/ GetIdHistories_PageReply
    \/ GetIdHistories_Sleep
    \/ GetIdHistories_Return
    \/ Resolver_Request
    \/ Resolver_Reply
    \/ GetTaxonIds_Request
    \/ GetTaxonIds_Reply
    \/ GetTaxonIds_Return
    \/ GetTaxonNames
    \/ GetSimSpp_Request
    \/ GetSimSpp_Reply

Spec == Init /\ [][Next]_vars

----------------------------------------------------------------------------
(* Properties.                                                             *)

IsPageRequest(r) == r.url = <<"v1", "observations">>

(* The page requests issued so far, in issue order. *)
PageRequests == SelectSeq(requests, IsPageRequest)

(* Reply k is a success in every respect: an answer with status 200 whose  *)
(* body is JSON, has results, and whose records have the fields read.      *)
CleanReply(k) ==
    LET resp == responses[k]
    IN  /\ resp.connected /\ resp.status_code = 200 /\ resp.is_json
        /\ "results" \in DOMAIN resp.body
        /\ IsPageRequest(requests[k]) =>
              \A j \in 1..Len(resp.body.results) :
                  "identifications" \in DOMAIN resp.body.results[j]

NoRequestFailed == \A k \in 1..Len(responses) : CleanReply(k)

CeilDiv(n, p) == (n + p - 1) \div p

(* C1: a fetch of total N and page size P in which no request fails issues *)
(* exactly ceil(N/P) page requests, and the per_page value of the last one *)
(* is N - (ceil(N/P) - 1) * P.                                             *)
C1_ExactlyCeilPageRequests ==
    (IsFetch /\ pc = "returned" /\ NoRequestFailed) =>
        LET N == n_obs[1]
            P == obs_per_page
            c == CeilDiv(N, P)
        IN  /\ Len(PageRequests) = c
            /\ c > 0 => PageRequests[c].params.per_page = N - (c - 1) * P

(* The example given with the count of page requests: N = 450, P = 200     *)
(* gives the three requests of sizes 200, 200, 50 (P does not divide N).   *)
Example450 ==
    (IsFetch /\ pc = "returned" /\ n_obs = Some(450) /\ obs_per_page = 200) =>
        [k \in 1..Len(PageRequests) |-> PageRequests[k].params.per_page]
            = <<200, 200, 50>>

(* C2: within one fetch at most one request is in flight, every request is *)
(* answered before the next is issued, and the k-th page request carries   *)
(* page = k: pages start at 1 and none is skipped or repeated.             *)
C2_SequentialIncreasingPages ==
    IsFetch =>
        /\ inflight \in {0, 1}
        /\ Len(requests) - Len(responses) = inflight
        /\ \A k \in 1..Len(PageRequests) : PageRequests[k].params.page = k

C2_Witness ==
    IsFetch /\ pc = "returned" /\ Len(PageRequests) >= 3

(* The delay the caller configured: the argument of the library, the fixed *)
(* second of the script.                                                   *)
ConfiguredDelay == IF op = LIB THEN delay ELSE 1

(* C3: after every page request, the last one included, the fetch sleeps   *)
(* for the configured delay before it issues the next request or returns:  *)
(* when it is about to issue a request or has returned it has slept once   *)
(* per page request, consecutive page requests are at least the delay      *)
(* apart, and a return is at least the delay after the last request.       *)
C3_DelayAfterEveryRequest ==
    IsFetch =>
        /\ pc \in {"loop", "returned"} => sleeps = Len(PageRequests)
        /\ \A k \in 1..(Len(PageRequests) - 1) :
              PageRequests[k + 1].time - PageRequests[k].time >= ConfiguredDelay
        /\ (pc = "returned" /\ Len(PageRequests) > 0) =>
              now - PageRequests[Len(PageRequests)].time >= ConfiguredDelay

C3_Witness ==
    /\ IsFetch /\ pc = "returned" /\ Len(PageRequests) >= 2
    /\ ConfiguredDelay >= 1 /\ sleeps = Len(PageRequests)

(* A page reply that is a failure: no answer, a non-success status, or a   *)
(* payload without the expected fields.                                    *)
FailedPageReply(resp) ==
    \/ ~resp.connected
    \/ resp.status_code \notin 200..299
    \/ ~resp.is_json
    \/ "results" \notin DOMAIN resp.body
    \/ \E j \in 1..Len(resp.body.results) :
          "identifications" \notin DOMAIN resp.body.results[j]

(* C4: if any page request of a fetch fails, the fetch ends in failure:    *)
(* the call raises and returns nothing, the failed page is not requested   *)
(* again, and no request follows the failed one.                           *)
C4_FailedPageAbortsFetch ==
    IsFetch =>
        \A k \in 1..Len(responses) :
            (IsPageRequest(requests[k]) /\ FailedPageReply(responses[k])) =>
                /\ pc = "raised"
                /\ result = NoResult
                /\ Len(requests) = k

(* The part of C4 the code keeps: a page request that raises (no answer, a *)
(* body that is not JSON, a payload without the fields read) ends the      *)
(* fetch with nothing returned and no later request.                       *)
RaisingPageReply(resp) ==
    \/ ~resp.connected
    \/ ~resp.is_json
    \/ "results" \notin DOMAIN resp.body
    \/ \E j \in 1..Len(resp.body.results) :
          "identifications" \notin DOMAIN resp.body.results[j]

RaisingPageAbortsFetch ==
    IsFetch =>
        \A k \in 1..Len(responses) :
            (IsPageRequest(requests[k]) /\ RaisingPageReply(responses[k])) =>
                /\ pc = "raised"
                /\ result = NoResult
                /\ Len(requests) = k

(* C5: when the page request of index i fails, the error the caller gets   *)
(* is a FetchFailed that identifies page index i.                          *)
C5_FetchFailedNamesPageIndex ==
    (/\ IsFetch /\ pc = "raised" /\ Len(responses) > 0
     /\ Len(responses) = Len(requests)
     /\ IsPageRequest(requests[Len(requests)])
     /\ RaisingPageReply(responses[Len(responses)])) =>
        /\ error.type = "FetchFailed"
        /\ "pageIndex" \in DOMAIN error
        /\ error.pageIndex = requests[Len(requests)].params.page - 1

(* The names of the identification events of a remote record, first to     *)
(* last, read off the record.                                              *)
NamesOf(o) ==
    [i \in DOMAIN o.identifications |-> o.identifications[i].taxon.name]

(* The histories of the records of replies k..Len(responses), in reply     *)
(* order and in the order in which each reply lists its records.           *)
RECURSIVE HistoriesFrom(_)
HistoriesFrom(k) ==
    IF k > Len(responses) THEN <<>>
    ELSE IF ~IsPageRequest(requests[k]) THEN HistoriesFrom(k + 1)
    ELSE LET recs == responses[k].body.results
         IN  [j \in 1..Len(recs) |->
                 IF op = LIB THEN [history |-> NamesOf(recs[j])]
                 ELSE NamesOf(recs[j])]
             \o HistoriesFrom(k + 1)

(* C6: the result of a successful fetch is the concatenation, in request   *)
(* order, of the histories of the records of every page reply, each page's *)
(* records in their order: nothing dropped, duplicated or reordered.       *)
C6_ResultIsConcatenationOfPages ==
    (IsFetch /\ pc = "returned") =>
        /\ result.type = "list"
        /\ result.value = HistoriesFrom(1)

C6_Witness ==
    /\ IsFetch /\ pc = "returned"
    /\ Len(result.value) >= 3
    /\ \E k \in 1..Len(responses) : \E m \in 1..Len(responses) :
          /\ k < m
          /\ IsPageRequest(requests[k]) /\ IsPageRequest(requests[m])
          /\ Len(responses[k].body.results) >= 2
          /\ Len(responses[m].body.results) >= 1

(* C7: the page request of index i carries per_page = min(P, N - i*P) and  *)
(* page = i + 1, with identified = true and quality_grade = research.      *)
C7_PageRequestParams ==
    IsFetch =>
        \A k \in 1..Len(PageRequests) :
            LET i == k - 1
                N == n_obs[1]
                P == obs_per_page
                q == PageRequests[k].params
            IN  /\ q.per_page = (IF P <= N - i * P THEN P ELSE N - i * P)
                /\ q.page = i + 1
                /\ q.identified = "true"
                /\ q.quality_grade = "research"

C7_Witness ==
    /\ IsFetch /\ pc = "returned" /\ Len(PageRequests) >= 2
    /\ PageRequests[1].params.per_page = obs_per_page
    /\ PageRequests[Len(PageRequests)].params.per_page \in 1..(obs_per_page - 1)

(* The error kind NotFound of the resolver: the exception by which the     *)
(* code reports an empty result set, raised by obs[0] on the empty list.   *)
NotFound == "IndexError"

(* A reply that carries a result set, and the result set is empty. *)
EmptyResultSet(resp) ==
    /\ resp.connected /\ resp.is_json
    /\ "results" \in DOMAIN resp.body
    /\ Len(resp.body.results) = 0

(* C8: get_taxon_id, get_taxon_name and get_obs_n report NotFound when the *)
(* remote service answers with an empty result set: the call raises that   *)
(* error and returns no value; and a resolver call that ends with NotFound *)
(* got an empty result set.                                                *)
C8_EmptyResultSetIsNotFound ==
    (IsSingle /\ Len(responses) = 1) =>
        /\ EmptyResultSet(responses[1]) =>
              /\ pc = "raised"
              /\ result = NoResult
              /\ error.type = NotFound
        /\ error.type = NotFound => EmptyResultSet(responses[1])

C8_Witness ==
    /\ op = "get_obs_n" /\ taxon_id \notin {TaxaDB[i].id : i \in DOMAIN TaxaDB}
    /\ Len(responses) = 1 /\ EmptyResultSet(responses[1])
    /\ pc = "raised" /\ error.type = NotFound

IsBatch == op \in {"get_taxon_ids", "get_taxon_names"}

(* The field a batch variant takes from the first result of each lookup. *)
BatchField == IF op = "get_taxon_ids" THEN "id" ELSE "name"

(* C9: a batch resolver returns a sequence as long as its input whose i-th *)
(* element is the single-item result for the i-th input (the field of the  *)
(* first result of the i-th lookup); if a lookup fails the batch fails     *)
(* with no result and nothing after the failing item is looked up.         *)
C9_BatchIsPositionwise ==
    IsBatch =>
        /\ pc = "returned" =>
              /\ result.type = "list"
              /\ Len(result.value) = Len(taxa)
              /\ Len(responses) = Len(taxa)
              /\ \A i \in 1..Len(taxa) :
                    /\ requests[i].params.q = taxa[i]
                    /\ result.value[i] = responses[i].body.results[1][BatchField]
        /\ pc = "raised" =>
              /\ result = NoResult
              /\ Len(requests) = Len(responses)
              /\ Len(requests) <= Len(taxa)

(* The half of C9 the code keeps: get_taxon_ids. *)
GetTaxonIdsIsPositionwise ==
    op = "get_taxon_ids" => C9_BatchIsPositionwise

(* C10: whatever page size the caller passes, no page request carries a    *)
(* per_page value above the page-size ceiling of the remote service.       *)
C10_PerPageClamped ==
    IsFetch =>
        \A k \in 1..Len(PageRequests) :
            PageRequests[k].params.per_page <= RemoteMaxPerPage


(* The delay the usage terms of the remote service require between         *)
(* requests: the default of the library (inat_api.py 13-15).               *)
RequiredDelay == INAT_DELAY

(* C11: whatever delay the caller passes, consecutive page requests of a   *)
(* fetch are at least the delay required by the remote service apart.      *)
C11_DelayNotBelowRequired ==
    IsFetch =>
        \A k \in 1..(Len(PageRequests) - 1) :
            PageRequests[k + 1].time - PageRequests[k].time >= RequiredDelay

(* The observation-count lookups issued so far. *)
CountRequests ==
    SelectSeq(requests, LAMBDA r : r.url = <<"v1", "taxa", taxon_id>>)

(* C12: the library fetch called with a total (0 included) issues no       *)
(* observation-count request and keeps the given value; called without a   *)
(* total it issues exactly one count lookup, as its first request, and the *)
(* count of that reply is the total of every page bound.                   *)
C12_HintDecidesCountLookup ==
    op = LIB =>
        /\ n_obs_arg # None =>
              /\ Len(CountRequests) = 0
              /\ n_obs = n_obs_arg
        /\ n_obs_arg = None =>
              /\ Len(CountRequests) = (IF pc = "call" THEN 0 ELSE 1)
              /\ Len(requests) > 0 => ~IsPageRequest(requests[1])
              /\ Len(PageRequests) > 0 =>
                    n_obs = Some(responses[1].body.results[1].observations_count)
        /\ \A k \in 1..Len(PageRequests) :
              LET N == IF n_obs_arg # None THEN n_obs_arg[1]
                       ELSE responses[1].body.results[1].observations_count
                  left == N - (k - 1) * obs_per_page
              IN  /\ left >= 0
                  /\ PageRequests[k].params.per_page =
                        (IF obs_per_page <= left THEN obs_per_page ELSE left)

C12_Witness ==
    /\ op = LIB /\ n_obs_arg = None /\ pc = "returned"
    /\ Len(CountRequests) = 1 /\ Len(PageRequests) >= 2
    /\ n_obs = Some(TaxaDB[taxon_id].observations_count)


----------------------------------------------------------------------------
(* The extraction of one identification history, on its own:               *)
(* inat_api.py 145, confmat_inat.py 34.                                    *)

ExtractNames == {TaxaDB[i].name : i \in DOMAIN TaxaDB}

TaxonOfName(name) ==
    LET t == TaxaDB[CHOOSE i \in DOMAIN TaxaDB : TaxaDB[i].name = name]
    IN  [id |-> t.id, name |-> t.name]

(* The observation record whose identification events assert the names ns  *)
(* in this order.                                                          *)
ObservationOf(ns) ==
    [id |-> 100, quality_grade |-> "research",
     identifications |->
        [j \in 1..Len(ns) |->
            [id |-> 1000 + j, current |-> j = Len(ns),
             taxon |-> TaxonOfName(ns[j])]]]

InitExtract ==
    /\ Quiet /\ op = "extract"
    /\ taxon = "" /\ taxon_id = 0 /\ taxa = <<>>
    /\ n_obs_arg = None /\ n_obs = None
    /\ obs_per_page = DefaultObsPerPage /\ delay = INAT_DELAY /\ remote_n = 0
    /\ observation \in {ObservationOf(ns) : ns \in SeqsUpTo(ExtractNames, MaxIdents)}
    /\ histories = <<>> /\ counts = <<>> /\ agg_pos = 0 /\ first_run = None

(* The comprehension applied to obs_one. *)
Extract ==
    /\ pc = "call" /\ op = "extract"
    /\ result' = Returned("list", History(observation))
    /\ pc' = "returned"
    /\ UNCHANGED <<op, taxon_id, taxon, taxa, n_obs_arg, n_obs, obs_per_page,
                   delay, page_id, id_histories, batch, requests, responses,
                   inflight, sleeps, now, error, remote_n, aux>>

SpecExtract == InitExtract /\ [][Extract]_vars

(* C13: the history extracted from an observation has exactly as many      *)
(* entries as the observation has identification events and its i-th entry *)
(* is the taxon name of the i-th event: nothing is filtered, merged or     *)
(* reordered; and the extraction reads and changes nothing else.           *)
C13_ExtractionKeepsEveryEvent ==
    (op = "extract" /\ pc = "returned") =>
        /\ Len(result.value) = Len(observation.identifications)
        /\ \A i \in 1..Len(observation.identifications) :
              result.value[i] = observation.identifications[i].taxon.name
        /\ requests = <<>> /\ id_histories = <<>> /\ error = NoError

C13_Witness ==
    /\ op = "extract" /\ pc = "returned"
    /\ Len(result.value) = 3
    /\ result.value[1] = result.value[2]
    /\ result.value[2] # result.value[3]


----------------------------------------------------------------------------
(* The history-based aggregation (spec section 4.4).  Neither source file  *)
(* holds it; it is written here as the specification describes it: for     *)
(* every history, every name of its sequence increments a running per-name *)
(* counter.                                                                *)

AggNames == {"A", "B", "C"}

(* Every collection of non-empty histories over AggNames that holds at     *)
(* most t names in all.                                                    *)
RECURSIVE Collections(_)
Collections(t) ==
    {<<>>} \cup
    UNION { { <<h>> \o c : c \in Collections(t - Len(h)) }
            : h \in SeqsUpTo(AggNames, t) \ {<<>>} }

(* counter[name] += 1, a name not yet counted starting at 0 *)
Increment(c, n) ==
    IF n \in DOMAIN c THEN [c EXCEPT ![n] = @ + 1] ELSE (n :> 1) @@ c

(* CountHistory counting a name once for a history however often it occurs. *)
RECURSIVE CountHistory_OncePerHistory(_, _)
CountHistory_OncePerHistory(c, h) ==
    IF h = <<>> THEN c
    ELSE LET rest == CountHistory_OncePerHistory(c, Tail(h))
         IN  IF \E i \in 2..Len(h) : h[i] = h[1] THEN rest
             ELSE Increment(rest, h[1])

(* CountHistory counting the first identification of a history only. *)
CountHistory_FirstOnly(c, h) ==
    IF h = <<>> THEN c ELSE Increment(c, h[1])

(* One history: every name of the sequence, in order. *)
RECURSIVE CountHistory(_, _)
CountHistory(c, h) ==
    IF h = <<>> THEN c ELSE CountHistory(Increment(c, Head(h)), Tail(h))

(* The counter after the histories hs, counted first to last. *)
RECURSIVE AggregateCounts(_)
AggregateCounts(hs) ==
    IF hs = <<>> THEN <<>>
    ELSE CountHistory(AggregateCounts(SubSeq(hs, 1, Len(hs) - 1)), hs[Len(hs)])

InitAggregate ==
    /\ Quiet /\ op = "aggregate"
    /\ taxon = "" /\ taxon_id = 0 /\ taxa = <<>>
    /\ n_obs_arg = None /\ n_obs = None
    /\ obs_per_page = DefaultObsPerPage /\ delay = INAT_DELAY /\ remote_n = 0
    /\ observation = NoObservation
    /\ histories \in Collections(MaxOccurrences)
    /\ counts = <<>> /\ agg_pos = 0 /\ first_run = None

(* The next history is counted into the running counter. *)
AggregateHistory ==
    /\ pc = "call" /\ op = "aggregate"
    /\ agg_pos < Len(histories)
    /\ counts' = CountHistory(counts, histories[agg_pos + 1])
    /\ agg_pos' = agg_pos + 1
    /\ UNCHANGED <<op, taxon_id, taxon, taxa, n_obs_arg, n_obs, obs_per_page,
                   delay, pc, page_id, id_histories, batch, requests,
                   responses, inflight, sleeps, now, result, error, remote_n,
                   observation, histories, first_run>>

(* Every history is counted: the counter is the result. *)
AggregateReturn ==
    /\ pc = "call" /\ op = "aggregate"
    /\ agg_pos = Len(histories)
    /\ result' = Returned("dict", counts)
    /\ pc' = "returned"
    /\ UNCHANGED <<op, taxon_id, taxon, taxa, n_obs_arg, n_obs, obs_per_page,
                   delay, page_id, id_histories, batch, requests, responses,
                   inflight, sleeps, now, error, remote_n, aux>>

NextAggregate == AggregateHistory \/ AggregateReturn

SpecAggregate == InitAggregate /\ [][NextAggregate]_vars

(* The places of the collection hs that hold the name n. *)
Occurrences(hs, n) ==
    { p \in UNION { { <<h, i>> : i \in 1..Len(hs[h]) } : h \in 1..Len(hs) } :
        hs[p[1]][p[2]] = n }

CountOf(c, n) == IF n \in DOMAIN c THEN c[n] ELSE 0

(* C14: the count of every name is the number of times the name appears    *)
(* across all the histories, repeats inside one history counted each time, *)
(* and a name that never appears has no count.                             *)
C14_CountsAreOccurrences ==
    (op = "aggregate" /\ pc = "returned") =>
        /\ \A n \in AggNames :
              CountOf(result.value, n) = Cardinality(Occurrences(histories, n))
        /\ \A n \in DOMAIN result.value :
              n \in AggNames /\ result.value[n] > 0

(* The example: [A,B,A] and [B,C] give {A:2, B:2, C:1}. *)
C14_Witness ==
    /\ op = "aggregate" /\ pc = "returned"
    /\ histories = << <<"A", "B", "A">>, <<"B", "C">> >>
    /\ result.value = [A |-> 2, B |-> 2, C |-> 1]

(* The collection hs with its histories in the order p and the names of    *)
(* history h in the order q.                                               *)
Rearranged(hs, p, h, q) ==
    [k \in 1..Len(hs) |->
        IF p[k] = h THEN [i \in 1..Len(hs[h]) |-> hs[h][q[i]]]
        ELSE hs[p[k]]]

(* C15: counting the histories in any other order, with the names of any   *)
(* one history in any other order, gives exactly the same counts.          *)
C15_CountsAreOrderIndependent ==
    (op = "aggregate" /\ pc = "returned") =>
        \A p \in Permutations(1..Len(histories)) :
            \A h \in 1..Len(histories) :
                \A q \in Permutations(1..Len(histories[h])) :
                    AggregateCounts(Rearranged(histories, p, h, q))
                        = result.value

C15_Witness ==
    /\ op = "aggregate" /\ pc = "returned"
    /\ Len(histories) = 3
    /\ histories[1] # histories[2] /\ histories[2] # histories[3]
    /\ Len(histories[3]) >= 2 /\ histories[3][1] # histories[3][2]
    /\ Cardinality(DOMAIN result.value) = 3


----------------------------------------------------------------------------
(* Frequency-based aggregation.                                            *)

(* C16: get_sim_spp makes exactly one request, for the focal taxon ID, and *)
(* its result has one (taxon ID, count) pair per entry of the remote list, *)
(* in the remote order, each ID and count equal to the remote values:      *)
(* nothing is merged, re-aggregated or filtered.                           *)
C16_SimSppPassesListThrough ==
    op = "get_sim_spp" =>
        /\ Len(requests) <= 1
        /\ pc \in {"lookup", "returned", "raised"} =>
              /\ Len(requests) = 1
              /\ requests[1].url = SimilarUrl
              /\ requests[1].params = [taxon_id |-> taxon_id]
        /\ pc = "returned" =>
              LET remote == responses[1].body.results
              IN  /\ Len(result.value) = Len(remote)
                  /\ \A j \in 1..Len(remote) :
                        result.value[j] = <<remote[j].taxon.id, remote[j].count>>

(* The remote list of taxon 1, with its repeated taxon and its zero count. *)
C16_Witness ==
    /\ op = "get_sim_spp" /\ pc = "returned" /\ taxon_id = 1
    /\ Len(requests) = 1
    /\ result.value = << <<2, 1>>, <<3, 0>>, <<2, 5>> >>


----------------------------------------------------------------------------
(* The page sizes a fetch asks for.                                        *)

(* C17: every page request of a fetch asks for at least one observation    *)
(* and at most the page size: 1 <= per_page <= P.                          *)
C17_EveryPageRequestAsksForSome ==
    IsFetch =>
        \A k \in 1..Len(PageRequests) :
            /\ 1 <= PageRequests[k].params.per_page
            /\ PageRequests[k].params.per_page <= obs_per_page


(* The sum of the per_page values of the requests rs. *)
RECURSIVE SumPerPage(_)
SumPerPage(rs) ==
    IF rs = <<>> THEN 0
    ELSE Head(rs).params.per_page + SumPerPage(Tail(rs))

(* C18: the per_page values of the requests of a completed fetch sum to    *)
(* exactly N; at every point of a fetch the accumulated histories are at   *)
(* most as many as the per_page values requested so far (the remote        *)
(* service returning at most per_page records to a page); so the result    *)
(* never holds more than N histories.                                      *)
C18_PerPageSumsToTotal ==
    IsFetch =>
        /\ Len(id_histories) <= SumPerPage(PageRequests)
        /\ pc = "returned" =>
              /\ SumPerPage(PageRequests) = n_obs[1]
              /\ Len(result.value) <= n_obs[1]

(* A completed fetch of several pages, the last one partial, whose result  *)
(* holds N histories.                                                      *)
C18_Witness ==
    /\ op = LIB /\ pc = "returned"
    /\ n_obs[1] = 3 /\ obs_per_page = 2
    /\ Len(PageRequests) = 2
    /\ Len(result.value) = 3


----------------------------------------------------------------------------
(* The two fetches compared: inat_api.get_id_histories is called with the  *)
(* total given and the default delay; when it has ended,                   *)
(* confmat_inat.get_id_histories is called with the same total and page    *)
(* size and gets the same responses.                                       *)

InitEquiv ==
    /\ Quiet /\ AuxIdle
    /\ op = LIB /\ taxa = <<>>
    /\ taxon_id \in TaxonIds /\ taxon \in TaxonNames
    /\ \E io \in FetchInputs : n_obs_arg = Some(io[1]) /\ obs_per_page = io[2]
    /\ n_obs = n_obs_arg
    /\ delay = INAT_DELAY
    /\ remote_n \in 0..MaxRemote

(* What the ended call did. *)
Observed ==
    [requests |-> requests, responses |-> responses, sleeps |-> sleeps,
     pc |-> pc, result |-> result, error |-> error]

(* The library call has ended: what it did is kept, and the script's       *)
(* function is called with the same n_obs and obs_per_page.                *)
SecondCall ==
    /\ op = LIB /\ pc \in {"returned", "raised"} /\ first_run = None
    /\ first_run' = Some(Observed)
    /\ op' = SCRIPT /\ n_obs' = n_obs_arg
    /\ pc' = "call" /\ page_id' = 0 /\ id_histories' = <<>>
    /\ requests' = <<>> /\ responses' = <<>> /\ inflight' = 0
    /\ sleeps' = 0 /\ now' = 0 /\ result' = NoResult /\ error' = NoError
    /\ UNCHANGED <<taxon_id, taxon, taxa, n_obs_arg, obs_per_page, delay,
                   batch, remote_n, observation, histories, counts, agg_pos>>

NextEquiv ==
    \/ GetIdHistories_HintGiven
    \/ GetIdHistories_PageRequest
    \/ GetIdHistories_PageReply
    \/ GetIdHistories_Sleep
    \/ GetIdHistories_Return
    \/ SecondCall

SpecEquiv == InitEquiv /\ [][NextEquiv]_vars

(* The (page, per_page) pairs of the requests rs, in order. *)
PagePairs(rs) ==
    [k \in 1..Len(rs) |-> <<rs[k].params.page, rs[k].params.per_page>>]

(* C19: for the same N and P, against the same responses and with the      *)
(* library delay 1, the script's fetch and the library's fetch issue the   *)
(* same sequence of (page, per_page) requests with the same number of      *)
(* delays and return the same histories in the same order; the library     *)
(* wraps each sequence in a 'history' record and selects the taxon by ID,  *)
(* the script by name, and nothing else differs.                           *)
C19_FetchesAreEquivalent ==
    (op = SCRIPT /\ first_run # None /\ pc \in {"returned", "raised"}) =>
        LET lib == first_run[1]
        IN  /\ PagePairs(requests) = PagePairs(lib.requests)
            /\ \A k \in 1..Len(requests) :
                  /\ requests[k].url = lib.requests[k].url
                  /\ requests[k].params.identified
                        = lib.requests[k].params.identified
                  /\ requests[k].params.quality_grade
                        = lib.requests[k].params.quality_grade
                  /\ requests[k].params.taxon_name = taxon
                  /\ lib.requests[k].params.taxon_id = taxon_id
            /\ sleeps = lib.sleeps
            /\ pc = lib.pc
            /\ pc = "returned" =>
                  /\ Len(result.value) = Len(lib.result.value)
                  /\ \A j \in 1..Len(result.value) :
                        lib.result.value[j] = [history |-> result.value[j]]

(* Both fetches ran over several pages and returned several histories,     *)
(* one of them with a name repeated consecutively.                         *)
C19_Witness ==
    /\ op = SCRIPT /\ first_run # None /\ pc = "returned"
    /\ Len(requests) >= 2 /\ sleeps >= 2
    /\ Len(result.value) >= 2
    /\ \E j \in 1..Len(result.value) :
          /\ Len(result.value[j]) >= 2
          /\ result.value[j][1] = result.value[j][2]

====
